---- MODULE Spec2Model ----
(***************************************************************************)
(* Storage and authorization layer of school-bloom-theme: the tables, the  *)
(* row-level-security policies and the triggers of the initial migration,  *)
(* with PostgreSQL's evaluation rules for them:                            *)
(*   - permissive policies of a command are OR-ed; a policy FOR ALL        *)
(*     applies to every command; a policy with only USING uses it as its   *)
(*     WITH CHECK too; a table with no policy for a command denies it;     *)
(*   - USING filters the existing rows an UPDATE/DELETE/SELECT sees (rows  *)
(*     that fail it are silently skipped), WITH CHECK raises an error on   *)
(*     a new row of an INSERT/UPDATE that fails it;                        *)
(*   - a foreign key with no ON DELETE clause is NO ACTION: deleting a     *)
(*     referenced row is an error;                                         *)
(*   - NOW() is the time of the writing transaction.                       *)
(* On top of it, the admin page (the session check and the auth-state      *)
(* listener that guard it) and one manager panel (its form, its list and   *)
(* the requests it has in flight).                                         *)
(***************************************************************************)
EXTENDS Integers, FiniteSets, TLC

\* ---------------------------------------------------------------- bounds
\* identities that can be registered: 1..MaxIdentity
MaxIdentity == 2
\* the clock stops here: every committed write draws a fresh NOW()
MaxTime == 2
\* promises of one kind (getSession, signOut) pending at the same time
MaxPending == 2
\* requests (writes and fetches) one panel has in flight at the same time
MaxInFlight == 2

\* ---------------------------------------------------------------- values
\* SQL NULL of a uuid column, and auth.uid() of an unauthenticated caller
NULL == 0
\* SQL NULL of a text column
NULLT == "NULL"
\* a column left out of an INSERT/UPDATE (its DEFAULT, or the old value, applies)
DEFAULT == -1
\* a text column left out of an INSERT/UPDATE
LeftOut == "DEFAULT"
\* timestamps count seconds; the form's datetime-local value has minutes
Minute == 60

Ids == 1..MaxIdentity
Callers == Ids \cup {NULL}
app_role == {"admin", "user"}
ContentTables == {"news", "staff", "activities"}
Buckets == {"news-images", "staff-images", "activity-images"}
Emails == {"a@x.com"}
FullNames == {"A"}
Titles == {"t"}
\* a timestamp a client may put in a request: one later than every NOW() of the run
FarFuture == MaxTime + 1
ClientTimes == {FarFuture}

VARIABLES
    auth_users,   \* auth.users: the ids of the registered identities
    profiles,     \* public.profiles: rows [id, email, full_name, updated_at]
    user_roles,   \* public.user_roles: rows [id, user_id, role]
    content,      \* public.news / staff / activities: table -> rows [id, title, image_url,
                  \*   activity_date, created_by, updated_at]
    objects,      \* storage.objects: rows [bucket_id, name, data]
    now,          \* NOW() of the last committed write
    nextId,       \* the next value of uuid_generate_v4()
    last          \* the last request and how it ended: [op, table, caller, status, rows]

\* the browser: the auth client, the router and the Admin page
VARIABLES
    session,      \* the auth client's session: the signed-in identity, or NULL
    route,        \* the router's location; Admin is mounted iff it is "/admin"
    user,         \* Admin's user state
    loading,      \* Admin's loading state
    checking,     \* getSession() of the mounted Admin is pending
    orphans,      \* pending getSession() promises of Admin pages since unmounted
    signingOut,   \* pending signOut() calls of handleLogout
    toast         \* the last toast shown: "none", "success", "error", "load-error"

\* one manager panel (NewsManager, StaffManager or ActivitiesManager)
VARIABLES
    panelTable,   \* the table the panel manages
    list,         \* newsList / staffList / activitiesList: the rows displayed
    listLoading,  \* the panel's loading state
    editingId,    \* the panel's editingId state
    formData,     \* the panel's formData state: [title, image_url, activity_date]
    requests,     \* insert/update/delete requests awaiting their response:
                  \*   [copy, op, id, data]
    fetches       \* select requests awaiting their response: the rows each returns

dbvars == <<auth_users, profiles, user_roles, content, objects, now, nextId, last>>
pagevars == <<session, route, user, loading, checking, orphans, signingOut>>
panelvars == <<panelTable, list, listLoading, editingId, formData, requests, fetches>>
vars == <<dbvars, pagevars, toast, panelvars>>

\* how a request ended: its status and the number of rows it returned or changed
\*   "ok"          no error (rows may be 0: the policies filtered every row out)
\*   "denied"      error: new row violates row-level security policy
\*   "constraint"  error: NOT NULL / UNIQUE / PRIMARY KEY / FOREIGN KEY violation
\*   "network"     error: the request did not reach the service
Result(op, t, c, st, n) ==
    [op |-> op, table |-> t, caller |-> c, status |-> st, rows |-> n]

\* ------------------------------------------------------------ has_role
has_role(_user_id, _role) ==
    \E r \in user_roles : r.user_id = _user_id /\ r.role = _role

\* the database role of a caller: PostgREST's anon or authenticated
authenticated(c) == c # NULL

\* SQL "a = b" as a policy condition: not true when either side is NULL
sql_eq(a, b) == a # NULL /\ b # NULL /\ a = b

\* COALESCE(a, b) on text
coalesce(a, b) == IF a # NULLT THEN a ELSE b

\* ------------------------------------------------------------ policies
\* one operator per CREATE POLICY: its expression, for caller c (auth.uid()) and a row

\* "Public profiles are viewable by everyone"
profiles_select(c, row) == TRUE
\* "Users can update own profile"
\*   variant: any signed-in caller
profiles_update_any(c, row) == authenticated(c)
profiles_update(c, row) == sql_eq(c, row.id)
\* "Users can insert own profile"
profiles_insert(c, row) == sql_eq(c, row.id)

\* "User roles viewable by authenticated users": TO authenticated
\*   variant: the TO clause left out
user_roles_select_public(c, row) == TRUE
user_roles_select(c, row) == authenticated(c)
\* "Only admins can manage user roles": FOR ALL
\*   variant: any signed-in caller
user_roles_all_open(c, row) == authenticated(c)
user_roles_all(c, row) == has_role(c, "admin")

\* "News viewable by everyone", "Staff viewable by everyone",
\* "Activities viewable by everyone"
content_select(c, t, row) == TRUE
\* "Admins can manage news", "Admins can manage staff",
\* "Admins can manage activities": FOR ALL
\*   variant: the other role of app_role
content_all_user(c, t, row) == has_role(c, "user")
content_all(c, t, row) == has_role(c, "admin")

\* "News images are publicly accessible" and its two siblings
objects_select(c, row) == row.bucket_id \in Buckets
\* "Admins can upload / update / delete news images" and their siblings
\*   variant: the has_role conjunct left out
objects_write_open(c, row) == row.bucket_id \in Buckets
objects_write(c, row) == row.bucket_id \in Buckets /\ has_role(c, "admin")

\* The policies of table t OR-ed, per command.  A FOR ALL policy takes part in
\* every command, and its USING stands in for its missing WITH CHECK.
SelectUsing(c, t, row) ==
    CASE t = "profiles" -> profiles_select(c, row)
      [] t = "user_roles" -> user_roles_select(c, row) \/ user_roles_all(c, row)
      [] t \in ContentTables -> content_select(c, t, row) \/ content_all(c, t, row)
      [] t = "objects" -> objects_select(c, row)

InsertCheck(c, t, row) ==
    CASE t = "profiles" -> profiles_insert(c, row)
      [] t = "user_roles" -> user_roles_all(c, row)
      [] t \in ContentTables -> content_all(c, t, row)
      [] t = "objects" -> objects_write(c, row)

UpdateUsing(c, t, row) ==
    CASE t = "profiles" -> profiles_update(c, row)
      [] t = "user_roles" -> user_roles_all(c, row)
      [] t \in ContentTables -> content_all(c, t, row)
      [] t = "objects" -> objects_write(c, row)

\* an UPDATE policy's USING is also the check of the new row
UpdateCheck(c, t, row) == UpdateUsing(c, t, row)

\* profiles has no DELETE policy: denied by default
DeleteUsing(c, t, row) ==
    CASE t = "profiles" -> FALSE
      [] t = "user_roles" -> user_roles_all(c, row)
      [] t \in ContentTables -> content_all(c, t, row)
      [] t = "objects" -> objects_write(c, row)

\* ---------------------------------------------------------- constraints
\* profiles: id PRIMARY KEY REFERENCES auth.users(id), email NOT NULL
profiles_constraints(row, others, users) ==
    /\ row.id # NULL
    /\ row.email # NULLT
    /\ row.id \in users
    /\ \A p \in others : p.id # row.id

\* user_roles: user_id NOT NULL REFERENCES profiles(id), UNIQUE(user_id, role)
\*   variant: without the UNIQUE constraint
user_roles_constraints_nounique(row, others) ==
    /\ row.user_id # NULL
    /\ \E p \in profiles : p.id = row.user_id

user_roles_constraints(row, others) ==
    /\ row.user_id # NULL
    /\ \E p \in profiles : p.id = row.user_id
    /\ \A r \in others : ~(r.user_id = row.user_id /\ r.role = row.role)

\* news / staff / activities: the required columns NOT NULL (title stands for
\* them), created_by REFERENCES profiles(id)
content_constraints(row) ==
    /\ row.title # NULLT
    /\ row.created_by # NULL => \E p \in profiles : p.id = row.created_by

\* storage.objects: one object per (bucket_id, name)
objects_constraints(row, others) ==
    \A o \in others : ~(o.bucket_id = row.bucket_id /\ o.name = row.name)

\* -------------------------------------------------------------- triggers
\* handle_new_user(): the profiles row of a new auth.users row
\*   variant: without the COALESCE
handle_new_user_nocoalesce(new_row, t) ==
    [id |-> new_row.id, email |-> new_row.email, full_name |-> new_row.full_name,
     updated_at |-> t]

handle_new_user(new_row, t) ==
    [id |-> new_row.id, email |-> new_row.email,
     full_name |-> coalesce(new_row.full_name, ""), updated_at |-> t]

\* handle_updated_at(): BEFORE UPDATE on profiles, news, staff, activities
handle_updated_at(new_row, t) == [new_row EXCEPT !.updated_at = t]

\* ------------------------------------------------------- auth.users ops
\* Sign-up: the auth service inserts the row into auth.users and, in the same
\* transaction, on_auth_user_created inserts its profile (SECURITY DEFINER: no
\* policy applies).  An error of the trigger aborts the whole insert.
Register(i, e, n) ==
    /\ now < MaxTime
    /\ i \notin auth_users
    /\ LET new_row == [id |-> i, email |-> e, full_name |-> n]
           row == handle_new_user(new_row, now + 1)
       IN IF profiles_constraints(row, profiles, auth_users \cup {i})
          THEN /\ auth_users' = auth_users \cup {i}
               /\ profiles' = profiles \cup {row}
               /\ now' = now + 1
               /\ last' = Result("register", "auth.users", i, "ok", 1)
          ELSE /\ UNCHANGED <<auth_users, profiles, now>>
               /\ last' = Result("register", "auth.users", i, "constraint", 0)
    /\ UNCHANGED <<user_roles, content, objects, nextId>>

\* The auth service deletes an identity.  profiles.id is ON DELETE CASCADE, and so
\* is user_roles.user_id; created_by of news/staff/activities has no ON DELETE
\* clause (NO ACTION), so a profile some content row refers to cannot go.
created_by_refs_unchecked(i) == FALSE

created_by_refs(i) ==
    \E t \in ContentTables : \E r \in content[t] : r.created_by = i

DeleteIdentity(i) ==
    /\ now < MaxTime
    /\ i \in auth_users
    /\ IF created_by_refs(i)
       THEN /\ UNCHANGED <<auth_users, profiles, user_roles, now>>
            /\ last' = Result("delete", "auth.users", i, "constraint", 0)
       ELSE /\ auth_users' = auth_users \ {i}
            /\ profiles' = {p \in profiles : p.id # i}
            /\ user_roles' = {r \in user_roles : r.user_id # i}
            /\ now' = now + 1
            /\ last' = Result("delete", "auth.users", i, "ok", 1)
    /\ UNCHANGED <<content, objects, nextId>>

\* --------------------------------------------------------- profiles ops
\* INSERT INTO profiles by an API caller
ProfileInsert(c, id, e, n) ==
    /\ now < MaxTime
    /\ LET new_row == [id |-> id, email |-> e, full_name |-> n, updated_at |-> now + 1]
       IN IF ~InsertCheck(c, "profiles", new_row)
          THEN /\ UNCHANGED <<profiles, now>>
               /\ last' = Result("insert", "profiles", c, "denied", 0)
          ELSE IF ~profiles_constraints(new_row, profiles, auth_users)
          THEN /\ UNCHANGED <<profiles, now>>
               /\ last' = Result("insert", "profiles", c, "constraint", 0)
          ELSE /\ profiles' = profiles \cup {new_row}
               /\ now' = now + 1
               /\ last' = Result("insert", "profiles", c, "ok", 1)
    /\ UNCHANGED <<auth_users, user_roles, content, objects, nextId>>

\* a profile that user_roles or a content row refers to cannot change its id
\* (the foreign keys have no ON UPDATE clause)
profile_id_refs(i) ==
    created_by_refs(i) \/ \E r \in user_roles : r.user_id = i

\* UPDATE profiles set_row id = id, email = e, full_name = n, updated_at = ts
\* WHERE id = pid, by an API caller
ProfileUpdate(c, pid, id, e, n, ts) ==
    /\ now < MaxTime
    /\ LET target == {p \in profiles : p.id = pid /\ UpdateUsing(c, "profiles", p)
                                          /\ SelectUsing(c, "profiles", p)}
           set_row == [id |-> id, email |-> e, full_name |-> n, updated_at |-> ts]
           new_row == handle_updated_at(set_row, now + 1)
       IN IF target = {}
          THEN /\ UNCHANGED <<profiles, now>>
               /\ last' = Result("update", "profiles", c, "ok", 0)
          ELSE IF ~UpdateCheck(c, "profiles", new_row)
          THEN /\ UNCHANGED <<profiles, now>>
               /\ last' = Result("update", "profiles", c, "denied", 0)
          ELSE IF \/ ~profiles_constraints(new_row, profiles \ target, auth_users)
                  \/ (id # pid /\ profile_id_refs(pid))
          THEN /\ UNCHANGED <<profiles, now>>
               /\ last' = Result("update", "profiles", c, "constraint", 0)
          ELSE /\ profiles' = (profiles \ target) \cup {new_row}
               /\ now' = now + 1
               /\ last' = Result("update", "profiles", c, "ok", 1)
    /\ UNCHANGED <<auth_users, user_roles, content, objects, nextId>>

\* DELETE FROM profiles WHERE id = pid, by an API caller
ProfileDelete(c, pid) ==
    /\ now < MaxTime
    /\ LET target == {p \in profiles : p.id = pid /\ DeleteUsing(c, "profiles", p)
                                          /\ SelectUsing(c, "profiles", p)}
       IN IF target = {}
          THEN /\ UNCHANGED <<profiles, user_roles, now>>
               /\ last' = Result("delete", "profiles", c, "ok", 0)
          ELSE IF created_by_refs(pid)
          THEN /\ UNCHANGED <<profiles, user_roles, now>>
               /\ last' = Result("delete", "profiles", c, "constraint", 0)
          ELSE /\ profiles' = profiles \ target
               /\ user_roles' = {r \in user_roles : r.user_id # pid}
               /\ now' = now + 1
               /\ last' = Result("delete", "profiles", c, "ok", 1)
    /\ UNCHANGED <<auth_users, content, objects, nextId>>

\* ------------------------------------------------------- user_roles ops
\* INSERT INTO user_roles (user_id, role), id by uuid_generate_v4()
RoleInsert(c, uid, role) ==
    /\ now < MaxTime
    /\ LET new_row == [id |-> nextId, user_id |-> uid, role |-> role]
       IN IF ~InsertCheck(c, "user_roles", new_row)
          THEN /\ UNCHANGED <<user_roles, now, nextId>>
               /\ last' = Result("insert", "user_roles", c, "denied", 0)
          ELSE IF ~user_roles_constraints(new_row, user_roles)
          THEN /\ UNCHANGED <<user_roles, now, nextId>>
               /\ last' = Result("insert", "user_roles", c, "constraint", 0)
          ELSE /\ user_roles' = user_roles \cup {new_row}
               /\ now' = now + 1
               /\ nextId' = nextId + 1
               /\ last' = Result("insert", "user_roles", c, "ok", 1)
    /\ UNCHANGED <<auth_users, profiles, content, objects>>

\* UPDATE user_roles SET user_id = uid, role = role WHERE id = rid
RoleUpdate(c, rid, uid, role) ==
    /\ now < MaxTime
    /\ LET target == {r \in user_roles : r.id = rid /\ UpdateUsing(c, "user_roles", r)
                                            /\ SelectUsing(c, "user_roles", r)}
           new_row == [id |-> rid, user_id |-> uid, role |-> role]
       IN IF target = {}
          THEN /\ UNCHANGED <<user_roles, now>>
               /\ last' = Result("update", "user_roles", c, "ok", 0)
          ELSE IF ~UpdateCheck(c, "user_roles", new_row)
          THEN /\ UNCHANGED <<user_roles, now>>
               /\ last' = Result("update", "user_roles", c, "denied", 0)
          ELSE IF ~user_roles_constraints(new_row, user_roles \ target)
          THEN /\ UNCHANGED <<user_roles, now>>
               /\ last' = Result("update", "user_roles", c, "constraint", 0)
          ELSE /\ user_roles' = (user_roles \ target) \cup {new_row}
               /\ now' = now + 1
               /\ last' = Result("update", "user_roles", c, "ok", 1)
    /\ UNCHANGED <<auth_users, profiles, content, objects, nextId>>

\* DELETE FROM user_roles WHERE id = rid
RoleDelete(c, rid) ==
    /\ now < MaxTime
    /\ LET target == {r \in user_roles : r.id = rid /\ DeleteUsing(c, "user_roles", r)
                                            /\ SelectUsing(c, "user_roles", r)}
       IN IF target = {}
          THEN /\ UNCHANGED <<user_roles, now>>
               /\ last' = Result("delete", "user_roles", c, "ok", 0)
          ELSE /\ user_roles' = user_roles \ target
               /\ now' = now + 1
               /\ last' = Result("delete", "user_roles", c, "ok", 1)
    /\ UNCHANGED <<auth_users, profiles, content, objects, nextId>>

\* ------------------------------------------- news / staff / activities ops
\* INSERT INTO t (title, image_url, activity_date, created_by[, updated_at]):
\* id by uuid_generate_v4(), a column left out is NULL, updated_at DEFAULT
\* NOW() when the client leaves it out (ts = DEFAULT). No trigger fires on INSERT.
insert_updated_at(ts, t) == IF ts = DEFAULT THEN t ELSE ts

\* activities.activity_date is NOT NULL; news and staff have no such column
date_constraint(t, row) == t = "activities" => row.activity_date # NULL

ContentInsertRow(c, t, title, image_url, activity_date, created_by, ts) ==
    /\ now < MaxTime
    /\ LET new_row == [id |-> nextId, title |-> title,
                       image_url |-> IF image_url = LeftOut THEN NULLT ELSE image_url,
                       activity_date |-> IF activity_date = DEFAULT THEN NULL
                                         ELSE activity_date,
                       created_by |-> IF created_by = DEFAULT THEN NULL ELSE created_by,
                       updated_at |-> insert_updated_at(ts, now + 1)]
       IN IF ~InsertCheck(c, t, new_row)
          THEN /\ UNCHANGED <<content, now, nextId>>
               /\ last' = Result("insert", t, c, "denied", 0)
          ELSE IF ~(content_constraints(new_row) /\ date_constraint(t, new_row))
          THEN /\ UNCHANGED <<content, now, nextId>>
               /\ last' = Result("insert", t, c, "constraint", 0)
          ELSE /\ content' = [content EXCEPT ![t] = @ \cup {new_row}]
               /\ now' = now + 1
               /\ nextId' = nextId + 1
               /\ last' = Result("insert", t, c, "ok", 1)
    /\ UNCHANGED <<auth_users, profiles, user_roles, objects>>

\* an API client's INSERT INTO t (title, created_by[, updated_at]) (with the
\* date an activity must have)
ContentInsert(c, t, title, created_by, ts) ==
    ContentInsertRow(c, t, title, LeftOut,
                     IF t = "activities" THEN Minute ELSE DEFAULT, created_by, ts)

\* UPDATE t SET title = title[, image_url = image_url][, activity_date =
\* activity_date][, created_by = created_by][, updated_at = ts] WHERE id = id;
\* update_<t>_updated_at fires BEFORE UPDATE
ContentUpdateRow(c, t, id, title, image_url, activity_date, created_by, ts) ==
    /\ now < MaxTime
    /\ LET target == {r \in content[t] : r.id = id /\ UpdateUsing(c, t, r)
                                            /\ SelectUsing(c, t, r)}
           old == CHOOSE r \in target : TRUE
           set_row == [id |-> id, title |-> title,
                       image_url |-> IF image_url = LeftOut THEN old.image_url
                                     ELSE image_url,
                       activity_date |-> IF activity_date = DEFAULT
                                         THEN old.activity_date ELSE activity_date,
                       created_by |-> IF created_by = DEFAULT THEN old.created_by
                                      ELSE created_by,
                       updated_at |-> IF ts = DEFAULT THEN old.updated_at ELSE ts]
           new_row == handle_updated_at(set_row, now + 1)
       IN IF target = {}
          THEN /\ UNCHANGED <<content, now>>
               /\ last' = Result("update", t, c, "ok", 0)
          ELSE IF ~UpdateCheck(c, t, new_row)
          THEN /\ UNCHANGED <<content, now>>
               /\ last' = Result("update", t, c, "denied", 0)
          ELSE IF ~(content_constraints(new_row) /\ date_constraint(t, new_row))
          THEN /\ UNCHANGED <<content, now>>
               /\ last' = Result("update", t, c, "constraint", 0)
          ELSE /\ content' = [content EXCEPT ![t] = (@ \ target) \cup {new_row}]
               /\ now' = now + 1
               /\ last' = Result("update", t, c, "ok", 1)
    /\ UNCHANGED <<auth_users, profiles, user_roles, objects, nextId>>

\* an API client's UPDATE t SET title, created_by[, updated_at] WHERE id = id
ContentUpdate(c, t, id, title, created_by, ts) ==
    ContentUpdateRow(c, t, id, title, LeftOut, DEFAULT, created_by, ts)

\* DELETE FROM t WHERE id = id
ContentDelete(c, t, id) ==
    /\ now < MaxTime
    /\ LET target == {r \in content[t] : r.id = id /\ DeleteUsing(c, t, r)
                                            /\ SelectUsing(c, t, r)}
       IN IF target = {}
          THEN /\ UNCHANGED <<content, now>>
               /\ last' = Result("delete", t, c, "ok", 0)
          ELSE /\ content' = [content EXCEPT ![t] = @ \ target]
               /\ now' = now + 1
               /\ last' = Result("delete", t, c, "ok", 1)
    /\ UNCHANGED <<auth_users, profiles, user_roles, objects, nextId>>

\* ----------------------------------------------------- storage.objects ops
ObjectName == "f"

\* upload: INSERT INTO storage.objects
ObjectInsert(c, b, data) ==
    /\ now < MaxTime
    /\ LET new_row == [bucket_id |-> b, name |-> ObjectName, data |-> data]
       IN IF ~InsertCheck(c, "objects", new_row)
          THEN /\ UNCHANGED <<objects, now>>
               /\ last' = Result("insert", b, c, "denied", 0)
          ELSE IF ~objects_constraints(new_row, objects)
          THEN /\ UNCHANGED <<objects, now>>
               /\ last' = Result("insert", b, c, "constraint", 0)
          ELSE /\ objects' = objects \cup {new_row}
               /\ now' = now + 1
               /\ last' = Result("insert", b, c, "ok", 1)
    /\ UNCHANGED <<auth_users, profiles, user_roles, content, nextId>>

\* replace: UPDATE storage.objects
ObjectUpdate(c, b, data) ==
    /\ now < MaxTime
    /\ LET target == {o \in objects : o.bucket_id = b /\ o.name = ObjectName
                                        /\ UpdateUsing(c, "objects", o)
                                        /\ SelectUsing(c, "objects", o)}
           new_row == [bucket_id |-> b, name |-> ObjectName, data |-> data]
       IN IF target = {}
          THEN /\ UNCHANGED <<objects, now>>
               /\ last' = Result("update", b, c, "ok", 0)
          ELSE IF ~UpdateCheck(c, "objects", new_row)
          THEN /\ UNCHANGED <<objects, now>>
               /\ last' = Result("update", b, c, "denied", 0)
          ELSE /\ objects' = (objects \ target) \cup {new_row}
               /\ now' = now + 1
               /\ last' = Result("update", b, c, "ok", 1)
    /\ UNCHANGED <<auth_users, profiles, user_roles, content, nextId>>

\* remove: DELETE FROM storage.objects
ObjectDelete(c, b) ==
    /\ now < MaxTime
    /\ LET target == {o \in objects : o.bucket_id = b /\ o.name = ObjectName
                                        /\ DeleteUsing(c, "objects", o)
                                        /\ SelectUsing(c, "objects", o)}
       IN IF target = {}
          THEN /\ UNCHANGED <<objects, now>>
               /\ last' = Result("delete", b, c, "ok", 0)
          ELSE /\ objects' = objects \ target
               /\ now' = now + 1
               /\ last' = Result("delete", b, c, "ok", 1)
    /\ UNCHANGED <<auth_users, profiles, user_roles, content, nextId>>

\* ------------------------------------------------------------------ reads
\* the rows of a table, by its name (a bucket names its objects)
Rows(t) ==
    CASE t = "profiles" -> profiles
      [] t = "user_roles" -> user_roles
      [] t \in ContentTables -> content[t]
      [] t \in Buckets -> {o \in objects : o.bucket_id = t}

PolicyTable(t) == IF t \in Buckets THEN "objects" ELSE t

\* SELECT * FROM t: the rows the SELECT policies let the caller see (a read
\* changes nothing, so it is a function of the state, not an action)
Visible(c, t) == {r \in Rows(t) : SelectUsing(c, PolicyTable(t), r)}

\* ------------------------------------------------------------------- spec
\* The migration creates the tables empty; the project owner then signs up and
\* grants themself the admin role from the SQL console (no policy lets anyone
\* insert the first admin row).
DbInit ==
    /\ auth_users = {1}
    /\ profiles = {[id |-> 1, email |-> "a@x.com", full_name |-> "",
                    updated_at |-> 0]}
    /\ user_roles = {[id |-> 1, user_id |-> 1, role |-> "admin"]}
    /\ content = [t \in ContentTables |-> {}]
    /\ objects = {}
    /\ now = 0
    /\ nextId = 2
    /\ last = Result("none", "none", NULL, "ok", 0)

\* no browser is open
PageIdle ==
    /\ session = NULL
    /\ route = "/"
    /\ user = NULL
    /\ loading = TRUE
    /\ checking = FALSE
    /\ orphans = 0
    /\ signingOut = 0
    /\ toast = "none"

\* the state of a panel's useState calls (title stands for the form's required
\* text fields, image_url for its optional ones; the date is "" (0) in the
\* forms that have none)
EmptyForm == [title |-> "", image_url |-> "", activity_date |-> 0]

\* no panel is mounted
PanelIdle ==
    /\ panelTable = "news"
    /\ list = {}
    /\ listLoading = TRUE
    /\ editingId = NULL
    /\ formData = EmptyForm
    /\ requests = {}
    /\ fetches = {}

Init == DbInit /\ PageIdle /\ PanelIdle

\* what a request may name: every identity or none, a text or NULL, a timestamp
\* or none, the id of a row of the table or an id no row has
Inputs(S) == S \cup {NULLT}
Stamps == ClientTimes \cup {DEFAULT}
RowIds(rows) == {r.id : r \in rows} \cup {nextId}

\* sign-up and account deletion, by the auth service
\* a request of an API client: the browser takes no step
Api == UNCHANGED <<pagevars, toast, panelvars>>

AuthNext ==
    \/ \E i \in Ids, e \in Inputs(Emails), n \in Inputs(FullNames) : Register(i, e, n) /\ Api
    \/ \E i \in Ids : DeleteIdentity(i) /\ Api

\* requests on public.user_roles
RolesNext ==
    \/ \E c \in Callers, uid \in Callers, role \in app_role : RoleInsert(c, uid, role) /\ Api
    \/ \E c \in Callers, rid \in RowIds(user_roles), uid \in Callers, role \in app_role :
          RoleUpdate(c, rid, uid, role) /\ Api
    \/ \E c \in Callers, rid \in RowIds(user_roles) : RoleDelete(c, rid) /\ Api

\* requests on public.profiles, news, staff, activities
TablesNext ==
    \/ \E c \in Callers, id \in Ids, e \in Inputs(Emails), n \in Inputs(FullNames) :
          ProfileInsert(c, id, e, n) /\ Api
    \/ \E c \in Callers, pid \in Ids, id \in Ids, e \in Inputs(Emails),
          n \in Inputs(FullNames), ts \in Stamps :
          ProfileUpdate(c, pid, id, e, n, ts) /\ Api
    \/ \E c \in Callers, pid \in Ids : ProfileDelete(c, pid) /\ Api
    \/ \E c \in Callers, t \in ContentTables, title \in Inputs(Titles),
          created_by \in Callers, ts \in Stamps :
          ContentInsert(c, t, title, created_by, ts) /\ Api
    \/ \E c \in Callers, t \in ContentTables, title \in Inputs(Titles),
          created_by \in Callers, ts \in Stamps :
          \E id \in RowIds(content[t]) : ContentUpdate(c, t, id, title, created_by, ts) /\ Api
    \/ \E c \in Callers, t \in ContentTables :
          \E id \in RowIds(content[t]) : ContentDelete(c, t, id) /\ Api

\* requests on storage.objects
ObjectsNext ==
    \/ \E c \in Callers, b \in Buckets \cup {"other"}, data \in 1..2 :
          ObjectInsert(c, b, data) /\ Api
    \/ \E c \in Callers, b \in Buckets, data \in 1..2 : ObjectUpdate(c, b, data) /\ Api
    \/ \E c \in Callers, b \in Buckets : ObjectDelete(c, b) /\ Api

Next == AuthNext \/ RolesNext \/ TablesNext

\* the database: identities, profiles, roles and the three content tables
Spec == Init /\ [][Next]_vars

\* the image buckets: identities, roles and storage.objects
StorageNext == AuthNext \/ RolesNext \/ ObjectsNext

StorageSpec == Init /\ [][StorageNext]_vars

\* ========================================================= the admin page
\* supabase.auth events the listener is called with
AuthEvents == {"SIGNED_IN", "SIGNED_OUT", "TOKEN_REFRESHED"}

\* Admin's render: the loading line while loading, else the header and the
\* tabs with the three managers, whatever user is
PanelsRendered == route = "/admin" /\ ~loading

\* Admin unmounts: its state is gone, its listener is unsubscribed
Unmount ==
    /\ user' = NULL
    /\ loading' = TRUE
    /\ checking' = FALSE

\* the getSession() promises that outlive their page once Admin unmounts
Orphaned == IF route = "/admin" /\ checking THEN orphans + 1 ELSE orphans

\* navigate(to), to being another page than /admin
navigate(to) ==
    /\ route' = to
    /\ Unmount

\* the browser opens /admin: Admin mounts with user null and loading true,
\* its effect calls getSession() and subscribes the listener
Visit ==
    /\ route # "/admin"
    /\ orphans < MaxPending
    /\ route' = "/admin"
    /\ user' = NULL
    /\ loading' = TRUE
    /\ checking' = TRUE
    /\ UNCHANGED <<session, orphans, signingOut, toast, dbvars, panelvars>>

\* the browser follows a link away from /admin
Leave ==
    /\ route = "/admin"
    /\ navigate("/")
    /\ orphans' = Orphaned
    /\ UNCHANGED <<session, signingOut, toast, dbvars, panelvars>>

\* getSession().then of the mounted page: no session navigates to /auth,
\* a session sets user; then loading is cleared
getSession_then ==
    /\ route = "/admin" /\ checking
    /\ IF session = NULL
       THEN navigate("/auth")
       ELSE /\ user' = session
            /\ loading' = FALSE
            /\ checking' = FALSE
            /\ UNCHANGED route
    /\ UNCHANGED orphans
    /\ UNCHANGED <<session, signingOut, toast, dbvars, panelvars>>

\* getSession().then of a page since unmounted: its navigate still acts on the
\* router, its setUser and setLoading set nothing
getSession_then_orphan ==
    /\ orphans > 0
    /\ IF session = NULL
       THEN /\ navigate("/auth")
            /\ orphans' = Orphaned - 1
       ELSE /\ orphans' = orphans - 1
            /\ UNCHANGED <<route, user, loading, checking>>
    /\ UNCHANGED <<session, signingOut, toast, dbvars, panelvars>>

\* the listener given to onAuthStateChange, with navigate left out
onAuthStateChange_stay(event, s) ==
    IF route # "/admin"
    THEN UNCHANGED <<route, user, loading, checking, orphans>>
    ELSE IF event = "SIGNED_OUT" \/ s = NULL
    THEN UNCHANGED <<route, user, loading, checking, orphans>>
    ELSE user' = s /\ UNCHANGED <<route, loading, checking, orphans>>

\* the listener given to onAuthStateChange, called while Admin is mounted
onAuthStateChange(event, s) ==
    IF route # "/admin"
    THEN UNCHANGED <<route, user, loading, checking, orphans>>
    ELSE IF event = "SIGNED_OUT" \/ s = NULL
    THEN navigate("/auth") /\ orphans' = Orphaned
    ELSE user' = s /\ UNCHANGED <<route, loading, checking, orphans>>

\* the auth client changes its session (a sign-in on /auth, a token refresh,
\* a sign-out in another tab or a refresh that failed) and calls its listeners
AuthChange(event, s) ==
    /\ CASE event = "SIGNED_IN" -> s \in auth_users
         [] event = "TOKEN_REFRESHED" -> s = session /\ s # NULL
         [] event = "SIGNED_OUT" -> s = NULL /\ session # NULL
    /\ session' = s
    /\ onAuthStateChange(event, s)
    /\ UNCHANGED <<signingOut, toast, dbvars, panelvars>>

\* the logout button of the header: handleLogout calls signOut()
ClickLogout ==
    /\ PanelsRendered
    /\ signingOut < MaxPending
    /\ signingOut' = signingOut + 1
    /\ UNCHANGED <<session, route, user, loading, checking, orphans, toast, dbvars, panelvars>>

\* signOut() resolves: with an error (the session stays), or with the session
\* removed and the listeners called with SIGNED_OUT; handleLogout then toasts
\* and, without error, navigates to /auth
handleLogout(error) ==
    /\ signingOut > 0
    /\ signingOut' = signingOut - 1
    /\ IF error
       THEN /\ toast' = "error"
            /\ UNCHANGED <<session, route, user, loading, checking, orphans>>
       ELSE /\ session' = NULL
            /\ toast' = "success"
            /\ navigate("/auth")
            /\ orphans' = Orphaned
    /\ UNCHANGED <<dbvars, panelvars>>

PageNext ==
    \/ Visit
    \/ Leave
    \/ getSession_then
    \/ getSession_then_orphan
    \/ \E event \in AuthEvents, s \in Callers : AuthChange(event, s)
    \/ ClickLogout
    \/ \E error \in BOOLEAN : handleLogout(error)

\* the accounts exist (the owner, an admin, and the other identities, with no
\* role), the tables are as the migration left them, no browser page is open
PageInit ==
    /\ auth_users = Ids
    /\ profiles = {[id |-> i, email |-> "a@x.com", full_name |-> "",
                     updated_at |-> 0] : i \in Ids}
    /\ user_roles = {[id |-> 1, user_id |-> 1, role |-> "admin"]}
    /\ content = [t \in ContentTables |-> {}]
    /\ objects = {}
    /\ now = 0
    /\ nextId = MaxIdentity + 1
    /\ last = Result("none", "none", NULL, "ok", 0)
    /\ PageIdle
    /\ PanelIdle

\* the admin page in a browser
PageSpec == PageInit /\ [][PageNext]_vars

\* ======================================================= a manager panel
\* the panel's form and list are displayed: Admin renders the managers, and
\* the manager is past its loading line
PanelReady == PanelsRendered /\ ~listLoading

\* new Date(d).toISOString().slice(0, 16): d in UTC, cut to the minute
toISOString_slice(d) == d - (d % Minute)

\* what the user may type: a title, and in the activities form a date and time
FormDates == IF panelTable = "activities" THEN {Minute} ELSE {0}

\* the browser's check of the required inputs, before onSubmit
Valid(data) ==
    /\ data.title # ""
    /\ panelTable = "activities" => data.activity_date # 0

\* the activity_date a request of the panel carries (no such field elsewhere)
RequestDate(data) ==
    IF panelTable = "activities" THEN data.activity_date ELSE DEFAULT

\* the requests of the panel that await their response
InFlight == Cardinality(requests) + Cardinality(fetches)

\* a request as handleSubmit or handleDelete sends it; copy tells requests of
\* the same content apart, and the copies in flight are numbered from 1
Copies(op, id, data) ==
    {r \in requests : r.op = op /\ r.id = id /\ r.data = data}

Request(op, id, data) ==
    [copy |-> Cardinality(Copies(op, id, data)) + 1, op |-> op, id |-> id, data |-> data]

\* requests of the same content are answered last sent first: which copy an
\* answer belongs to makes no difference to the panel
Answerable(r) == r.copy = Cardinality(Copies(r.op, r.id, r.data))

\* fetchNews(), called and not awaited: the select is sent and answered later
\* with the rows the table had
fetchNews ==
    /\ fetches' = fetches \cup
          {{row \in content'[panelTable] : SelectUsing(session, panelTable, row)}}

\* the response of a select arrives: the rows replace the list, or an error is
\* toasted; finally loading is cleared
fetchNews_response(rows, failed) ==
    /\ rows \in fetches
    /\ fetches' = fetches \ {rows}
    /\ IF failed
       THEN toast' = "load-error" /\ UNCHANGED list
       ELSE list' = rows /\ UNCHANGED toast
    /\ listLoading' = FALSE
    /\ UNCHANGED <<dbvars, pagevars, panelTable, editingId, formData, requests>>

\* onChange of the inputs
handleChange(title, activity_date) ==
    /\ PanelReady
    /\ formData' = [formData EXCEPT !.title = title, !.activity_date = activity_date]
    /\ UNCHANGED <<dbvars, pagevars, toast, panelTable, list, listLoading, editingId,
                   requests, fetches>>

\* the submit button, never disabled: handleSubmit sends an update of the row
\* editingId names, or an insert, with the form's data, and awaits
submit ==
    /\ PanelReady
    /\ Valid(formData)
    /\ InFlight < MaxInFlight
    /\ requests' = requests \cup
          {Request(IF editingId # NULL THEN "update" ELSE "insert", editingId, formData)}
    /\ UNCHANGED <<dbvars, pagevars, toast, panelTable, list, listLoading, editingId,
                   formData, fetches>>

\* the service answers a request r of the panel, or the request fails to
\* reach it
Respond(r, failed) ==
    IF failed
    THEN /\ last' = Result(r.op, panelTable, session, "network", 0)
         /\ UNCHANGED <<auth_users, profiles, user_roles, content, objects, now, nextId>>
    ELSE CASE r.op = "insert" ->
                ContentInsertRow(session, panelTable, r.data.title, r.data.image_url,
                                 RequestDate(r.data), DEFAULT, DEFAULT)
           [] r.op = "update" ->
                ContentUpdateRow(session, panelTable, r.id, r.data.title,
                                 r.data.image_url, RequestDate(r.data), DEFAULT, DEFAULT)
           [] r.op = "delete" ->
                ContentDelete(session, panelTable, r.id)

\* the catch block of handleSubmit and handleDelete, also resetting the form
catch_reset ==
    /\ toast' = "error"
    /\ formData' = EmptyForm
    /\ editingId' = NULL
    /\ UNCHANGED <<list, fetches>>

\* the catch block of handleSubmit and handleDelete: the error toast, only
catch ==
    /\ toast' = "error"
    /\ UNCHANGED <<formData, editingId, list, fetches>>

\* handleSubmit after its await: an error is thrown to the catch block; else
\* the success toast, the form reset, editingId cleared, the list refetched
handleSubmit(r, failed) ==
    /\ r \in requests /\ r.op \in {"insert", "update"}
    /\ Answerable(r)
    /\ requests' = requests \ {r}
    /\ Respond(r, failed)
    /\ IF last'.status # "ok"
       THEN catch
       ELSE /\ toast' = "success"
            /\ formData' = EmptyForm
            /\ editingId' = NULL
            /\ fetchNews
            /\ UNCHANGED list
    /\ UNCHANGED <<pagevars, panelTable, listLoading>>

\* handleEdit without the "|| ''" of the optional fields
handleEdit_null(row) ==
    [title |-> row.title,
     image_url |-> row.image_url,
     activity_date |-> IF panelTable = "activities"
                       THEN toISOString_slice(row.activity_date) ELSE 0]

\* the formData handleEdit sets for a record
handleEdit(row) ==
    [title |-> row.title,
     image_url |-> IF row.image_url = NULLT THEN "" ELSE row.image_url,
     activity_date |-> IF panelTable = "activities"
                       THEN toISOString_slice(row.activity_date) ELSE 0]

\* the edit button of a listed record, never disabled
edit(row) ==
    /\ PanelReady
    /\ row \in list
    /\ editingId' = row.id
    /\ formData' = handleEdit(row)
    /\ UNCHANGED <<dbvars, pagevars, toast, panelTable, list, listLoading, requests,
                   fetches>>

\* the cancel button, shown while editingId is set: handleCancel
handleCancel ==
    /\ PanelReady
    /\ editingId # NULL
    /\ editingId' = NULL
    /\ formData' = EmptyForm
    /\ UNCHANGED <<dbvars, pagevars, toast, panelTable, list, listLoading, requests,
                   fetches>>

\* the delete button of a listed record, never disabled, confirmed by the
\* user: handleDelete sends the delete and awaits
delete(id) ==
    /\ PanelReady
    /\ \E row \in list : row.id = id
    /\ InFlight < MaxInFlight
    /\ requests' = requests \cup
          {Request("delete", id, EmptyForm)}
    /\ UNCHANGED <<dbvars, pagevars, toast, panelTable, list, listLoading, editingId,
                   formData, fetches>>

\* handleDelete after its await: an error is thrown to the catch block; else
\* the success toast and the list refetched; editingId and formData stay
handleDelete(r, failed) ==
    /\ r \in requests /\ r.op = "delete"
    /\ Answerable(r)
    /\ requests' = requests \ {r}
    /\ Respond(r, failed)
    /\ IF last'.status # "ok"
       THEN catch
       ELSE /\ toast' = "success"
            /\ fetchNews
            /\ UNCHANGED <<formData, editingId, list>>
    /\ UNCHANGED <<pagevars, panelTable, listLoading>>

PanelNext ==
    \/ \E rows \in fetches, failed \in BOOLEAN : fetchNews_response(rows, failed)
    \/ \E title \in Titles, activity_date \in FormDates :
          handleChange(title, activity_date)
    \/ submit
    \/ \E r \in requests, failed \in BOOLEAN : handleSubmit(r, failed)
    \/ \E row \in list : edit(row)
    \/ handleCancel
    \/ \E row \in list : delete(row.id)
    \/ \E r \in requests, failed \in BOOLEAN : handleDelete(r, failed)

\* a record of the table, inserted earlier by an API client that named
\* neither image_url nor created_by (and gave a date with seconds)
Seeded(t) ==
    [id |-> MaxIdentity + 1, title |-> "t", image_url |-> NULLT,
     activity_date |-> IF t = "activities" THEN Minute + 1 ELSE NULL,
     created_by |-> NULL, updated_at |-> 0]

\* a signed-in user (the admin, or an identity with no role) has opened
\* /admin and one of its three tabs: the manager has mounted with an empty
\* list and form, loading, and its effect has called fetchNews()
PanelInit ==
    /\ auth_users = Ids
    /\ profiles = {[id |-> i, email |-> "a@x.com", full_name |-> "",
                     updated_at |-> 0] : i \in Ids}
    /\ user_roles = {[id |-> 1, user_id |-> 1, role |-> "admin"]}
    /\ panelTable \in ContentTables
    /\ content = [t \in ContentTables |-> IF t = panelTable THEN {Seeded(t)} ELSE {}]
    /\ objects = {}
    /\ now = 0
    /\ nextId = MaxIdentity + 2
    /\ last = Result("none", "none", NULL, "ok", 0)
    /\ session \in {1, MaxIdentity}
    /\ route = "/admin"
    /\ user = session
    /\ loading = FALSE
    /\ checking = FALSE
    /\ orphans = 0
    /\ signingOut = 0
    /\ toast = "none"
    /\ list = {}
    /\ listLoading = TRUE
    /\ editingId = NULL
    /\ formData = EmptyForm
    /\ requests = {}
    /\ fetches = {content[panelTable]}

\* one manager panel of a signed-in user
PanelSpec == PanelInit /\ [][PanelNext]_vars

\* ================================================================ claims
WriteOps == {"insert", "update", "delete"}
ProtectedTables == ContentTables \cup {"user_roles"}
\* the step just taken applied its request to one row
Applied == last'.status = "ok" /\ last'.rows = 1
IdsOf(rows) == {r.id : r \in rows}

\* C1 (as stated): every insert, update or delete on news, staff, activities or
\* user_roles by a caller that holds no admin row fails with an access-denied
\* error and leaves the table unchanged.
C1_NonAdminWriteDenied ==
    [][(/\ last'.op \in WriteOps
        /\ last'.table \in ProtectedTables
        /\ ~has_role(last'.caller, "admin"))
       => (last'.status = "denied" /\ UNCHANGED <<user_roles, content>>)]_vars

\* C2: every insert, update or delete on news, staff or activities by a caller
\* that holds an admin row, with values that satisfy the column constraints
\* (required columns non-null, created_by null or an existing profile), is never
\* denied, ends without error and is applied: the inserted row is in the table,
\* the updated row carries the new values, the deleted row is gone.
C2_AdminWriteApplied ==
    [][\A t \in ContentTables :
         (last'.table = t /\ last'.op \in WriteOps /\ has_role(last'.caller, "admin"))
         => /\ last'.status # "denied"
            /\ \A title \in Inputs(Titles), created_by \in Callers, ts \in Stamps :
                 content_constraints([title |-> title, created_by |-> created_by])
                 => /\ ContentInsert(last'.caller, t, title, created_by, ts)
                       => /\ Applied
                          /\ \E r \in content'[t] \ content[t] :
                               r.title = title /\ r.created_by = created_by
                    /\ \A id \in IdsOf(content[t]) :
                         ContentUpdate(last'.caller, t, id, title, created_by, ts)
                         => /\ Applied
                            /\ \E r \in content'[t] :
                                 r.id = id /\ r.title = title /\ r.created_by = created_by
            /\ \A id \in IdsOf(content[t]) :
                 ContentDelete(last'.caller, t, id)
                 => /\ Applied
                    /\ id \notin IdsOf(content'[t])]_vars

\* C2's case: an admin's update of a news row was applied
C2_Witness ==
    /\ last.op = "update" /\ last.table = "news"
    /\ last.status = "ok" /\ last.rows = 1
    /\ has_role(last.caller, "admin")

\* C3 (as stated): an update of profile P by caller C is applied if and only if
\* C's identity equals P.id.
C3_UpdateIffOwner ==
    [][(last'.op = "update" /\ last'.table = "profiles")
       => \A pid \in IdsOf(profiles), id \in Ids, e \in Inputs(Emails),
             n \in Inputs(FullNames), ts \in Stamps :
            ProfileUpdate(last'.caller, pid, id, e, n, ts)
            => (Applied <=> last'.caller = pid)]_vars

\* C3 (amended): an update of profile P by caller C is applied only if C's
\* identity equals P.id, whatever roles C holds; and an update by C = P.id that
\* keeps P.id and gives a non-null email is applied, whether or not C is an admin.
C3_UpdateIffOwnerValid ==
    [][(last'.op = "update" /\ last'.table = "profiles")
       => LET c == last'.caller
          IN /\ Applied => \A p \in (profiles \ profiles') \cup (profiles' \ profiles) :
                             p.id = c
             /\ ~Applied => UNCHANGED profiles
             /\ c \in IdsOf(profiles)
                => \A e \in Emails, n \in Inputs(FullNames), ts \in Stamps :
                     ProfileUpdate(c, c, c, e, n, ts)
                     => /\ Applied
                        /\ \E p \in profiles' :
                             p.id = c /\ p.email = e /\ p.full_name = n]_vars

\* C3's case: a caller that is no admin has updated their own profile
C3_Witness ==
    /\ last.op = "update" /\ last.table = "profiles"
    /\ last.status = "ok" /\ last.rows = 1
    /\ ~has_role(last.caller, "admin")
    /\ \E p \in profiles : p.id = last.caller /\ p.full_name = "A"

\* C4 (as stated): every step that adds or removes a user_roles row is a
\* request on user_roles of a caller that has_role(caller, admin) before the
\* step; no other operation changes user_roles.
C4_OnlyAdminsChangeRoles ==
    [][user_roles' # user_roles
       => (last'.table = "user_roles" /\ has_role(last'.caller, "admin"))]_vars

\* C4 (amended): every step that adds or removes a user_roles row is either a
\* request on user_roles of a caller that has_role(caller, admin) before the
\* step, or the deletion of an identity, which removes exactly the rows of that
\* identity (the cascade through its profile); registration and requests on
\* other tables leave user_roles unchanged.
C4_RolesChangeByAdminOrCascade ==
    [][user_roles' # user_roles
       => \/ (last'.table = "user_roles" /\ has_role(last'.caller, "admin"))
          \/ /\ last'.table = "auth.users" /\ last'.op = "delete"
             /\ user_roles' = {r \in user_roles : r.user_id # last'.caller}]_vars

\* C4's case: an admin has granted a role
C4_Witness ==
    /\ last.op = "insert" /\ last.table = "user_roles" /\ last.status = "ok"
    /\ Cardinality(user_roles) > 1

\* C5: every caller, authenticated or not, sees every row of profiles, news,
\* staff and activities; an authenticated caller sees every row of user_roles
\* whatever their roles, an unauthenticated caller sees none.
C5_ReadPolicies ==
    \A c \in Callers :
      /\ \A t \in ContentTables \cup {"profiles"} : Visible(c, t) = Rows(t)
      /\ Visible(c, "user_roles") = IF c # NULL THEN user_roles ELSE {}

\* C5's case: there are rows to read in news and in user_roles, and a signed-in
\* caller with no role
C5_Witness ==
    /\ content["news"] # {}
    /\ user_roles # {}
    /\ \E c \in auth_users : \A r \in user_roles : r.user_id # c

\* C6: no two user_roles rows have the same (user_id, role); an admin's insert
\* of a pair that exists is rejected and leaves user_roles unchanged, and an
\* admin's insert of a pair (P, r') that does not exist, P a profile, succeeds.
UniqueRoles(rows) ==
    \A r1 \in rows, r2 \in rows :
       (r1.user_id = r2.user_id /\ r1.role = r2.role) => r1 = r2

C6_UniqueRolePairs ==
    /\ UniqueRoles(user_roles)
    /\ [][/\ UniqueRoles(user_roles')
          /\ (last'.op = "insert" /\ last'.table = "user_roles"
                 /\ has_role(last'.caller, "admin"))
             => \A uid \in Ids, role \in app_role :
                  RoleInsert(last'.caller, uid, role)
                  => IF \E r \in user_roles : r.user_id = uid /\ r.role = role
                     THEN last'.status = "constraint" /\ UNCHANGED user_roles
                     ELSE (\E p \in profiles : p.id = uid)
                          => /\ Applied
                             /\ \E r \in user_roles' \ user_roles :
                                  r.user_id = uid /\ r.role = role]_vars

\* C6's case: the admin holds (admin) and (user), and a second insert of a pair
\* was rejected
C6_Witness ==
    /\ last.op = "insert" /\ last.table = "user_roles" /\ last.status = "constraint"
    /\ has_role(last.caller, "admin")
    /\ \E r1 \in user_roles, r2 \in user_roles :
         r1.user_id = r2.user_id /\ r1.role = "admin" /\ r2.role = "user"

\* C7 (as stated): deleting a profile P that has created news succeeds, removes
\* every user_roles row of P and leaves every news row with created_by = P in
\* the news table.
C7_DeleteKeepsNews ==
    [][(/\ last'.op = "delete" /\ last'.table = "auth.users"
        /\ \E r \in content["news"] : r.created_by = last'.caller)
       => /\ last'.status = "ok"
          /\ \A p \in profiles' : p.id # last'.caller
          /\ \A r \in user_roles' : r.user_id # last'.caller
          /\ \A r \in content["news"] :
               r.created_by = last'.caller => r \in content'["news"]]_vars

\* C8 (as stated): after every successful update of a profiles, news, staff or
\* activities row, the row's updated_at is the time of that write, whatever the
\* client supplied, and is strictly greater than its updated_at before.
C8_UpdatedAtAdvances ==
    [][\A t \in ContentTables \cup {"profiles"} :
         (last'.op = "update" /\ last'.table = t /\ Applied)
         => \A new \in Rows(t)' \ Rows(t) :
              /\ new.updated_at = now'
              /\ \A old \in Rows(t) \ Rows(t)' :
                   old.id = new.id => new.updated_at > old.updated_at]_vars

\* C9: registering identity i with email e and metadata full_name n creates, in
\* the same step, exactly one profiles row, with id = i, email = e and
\* full_name = n ('' when n is not supplied); when the profile cannot be inserted
\* the identity is not registered; every registered identity has exactly one
\* profile.
OneProfileEach(users, rows) ==
    \A i \in users : Cardinality({p \in rows : p.id = i}) = 1

C9_RegistrationCreatesProfile ==
    /\ OneProfileEach(auth_users, profiles)
    /\ [][/\ OneProfileEach(auth_users', profiles')
          /\ last'.op = "register"
             => \A i \in Ids, e \in Inputs(Emails), n \in Inputs(FullNames) :
                  Register(i, e, n)
                  => IF e # NULLT
                     THEN /\ last'.status = "ok"
                          /\ auth_users' = auth_users \cup {i}
                          /\ \E p \in profiles' :
                               /\ profiles' \ profiles = {p}
                               /\ p.id = i /\ p.email = e
                               /\ p.full_name = IF n = NULLT THEN "" ELSE n
                          /\ profiles \subseteq profiles'
                     ELSE /\ last'.status # "ok"
                          /\ UNCHANGED <<auth_users, profiles>>]_vars

\* C9's case: an identity has registered without a full_name
C9_Witness ==
    /\ last.op = "register" /\ last.status = "ok"
    /\ \E p \in profiles : p.id = last.caller /\ p.full_name = "" /\ p.updated_at = now

\* C10: in each of the three buckets every caller reads every object; an upload,
\* a replacement or a removal takes effect exactly when has_role(caller, admin)
\* holds, which is exactly when the caller's insert, update and delete pass the
\* policies of the owning content table.
Owner(b) ==
    CASE b = "news-images" -> "news"
      [] b = "staff-images" -> "staff"
      [] b = "activity-images" -> "activities"

C10_BucketPolicies ==
    /\ \A c \in Callers, b \in Buckets : Visible(c, b) = Rows(b)
    /\ [][/\ \A c \in Callers, b \in Buckets : Visible(c, b)' = Rows(b)'
          /\ \A b \in Buckets :
               (last'.table = b /\ last'.op \in WriteOps)
               => LET c == last'.caller
                      o == [bucket_id |-> b, name |-> ObjectName, data |-> 1]
                      row == [id |-> nextId, title |-> "t", created_by |-> NULL,
                              updated_at |-> now]
                      had == Rows(b) # {}
                  IN /\ has_role(c, "admin") <=> InsertCheck(c, Owner(b), row)
                     /\ has_role(c, "admin") <=> UpdateUsing(c, Owner(b), row)
                     /\ has_role(c, "admin") <=> DeleteUsing(c, Owner(b), row)
                     /\ IF has_role(c, "admin")
                        THEN /\ last'.op = "insert"
                                => IF had THEN last'.status = "constraint"
                                   ELSE Applied /\ Rows(b)' # {}
                             /\ last'.op = "update"
                                => (had => Applied)
                             /\ last'.op = "delete"
                                => (had => Applied /\ Rows(b)' = {})
                        ELSE /\ UNCHANGED objects
                             /\ ~Applied
                             /\ last'.op = "insert" => last'.status = "denied"]_vars

\* C10's case: an admin has uploaded an object, and a caller that is no admin
\* was then denied an upload
C10_Witness ==
    /\ objects # {}
    /\ last.op = "insert" /\ last.table \in Buckets /\ last.status = "denied"
    /\ ~has_role(last.caller, "admin")

\* C11: in every reachable state the created_by of every news, staff and
\* activities row is null or the id of a profile that exists: the writes check
\* the reference, and a referenced profile cannot be deleted or re-keyed
C11_CreatedByResolves ==
    \A t \in ContentTables : \A r \in content[t] :
        r.created_by = NULL \/ \E p \in profiles : p.id = r.created_by

\* C11's case: a row names its creator, and the deletion of that creator's
\* identity has just been rejected
C11_Witness ==
    /\ last.op = "delete" /\ last.table = "auth.users"
    /\ last.status = "constraint"
    /\ \E t \in ContentTables : \E r \in content[t] :
          r.created_by = last.caller /\ r.created_by # NULL

\* C12: the admin page is authenticated-only: a session check that finds no
\* session, and an auth-state event that reports SIGNED_OUT or no session
\* while the page is mounted, navigate to /auth, and the manager panels are
\* never rendered while there is no session
C12_AuthenticatedOnly ==
    /\ [](PanelsRendered => session # NULL)
    /\ [][/\ (getSession_then \/ getSession_then_orphan) /\ session = NULL
              => route' = "/auth"
          /\ \A event \in AuthEvents, s \in Callers :
                (AuthChange(event, s) /\ route = "/admin"
                 /\ (event = "SIGNED_OUT" \/ s = NULL))
                => route' = "/auth"]_vars

\* C12's case: the panels were rendered for a signed-in user (who clicked
\* logout), the session then ended with a SIGNED_OUT event before signOut()
\* resolved, and the page has left for /auth
C12_Witness ==
    /\ session = NULL
    /\ route = "/auth"
    /\ toast = "none"
    /\ signingOut > 0

\* a step in which the response of a submit request arrives
SubmitAnswered(r) == handleSubmit(r, TRUE) \/ handleSubmit(r, FALSE)

\* C13 as stated: edit sets editingId to the record's id and fills the form
\* with the record's fields (null optional fields as empty strings); after
\* cancel and after submit the form is empty and editingId is null
C13_FormLifecycle ==
    [][/\ (editingId' # editingId \/ formData' # formData)
          => \A row \in list :
               edit(row)
               => /\ editingId' = row.id
                  /\ formData'.title = row.title
                  /\ formData'.image_url
                        = (IF row.image_url = NULLT THEN "" ELSE row.image_url)
                  /\ panelTable = "activities"
                     => formData'.activity_date = row.activity_date
       /\ handleCancel => formData' = EmptyForm /\ editingId' = NULL
       /\ requests' # requests
          => \A r \in requests :
               SubmitAnswered(r) => formData' = EmptyForm /\ editingId' = NULL]_vars

\* C13, amended: edit sets editingId to the record's id and fills the form
\* with the record's fields, null optional fields as empty strings and an
\* activity's date cut to its minute; after cancel, and when a submit is
\* answered without error, the form is empty and editingId is null; when a
\* submit is answered with an error both stay as they are
C13_FormLifecycleOnSuccess ==
    [][/\ (editingId' # editingId \/ formData' # formData)
          => \A row \in list :
               edit(row)
               => /\ editingId' = row.id
                  /\ formData'.title = row.title
                  /\ formData'.image_url
                        = (IF row.image_url = NULLT THEN "" ELSE row.image_url)
                  /\ panelTable = "activities"
                     => /\ formData'.activity_date % Minute = 0
                        /\ formData'.activity_date <= row.activity_date
                        /\ row.activity_date < formData'.activity_date + Minute
       /\ handleCancel => formData' = EmptyForm /\ editingId' = NULL
       /\ requests' # requests
          => \A r \in requests :
               SubmitAnswered(r)
               => IF last'.status = "ok"
                  THEN formData' = EmptyForm /\ editingId' = NULL
                  ELSE UNCHANGED <<formData, editingId>>]_vars

\* C13's case: the edit button of an activity with no image and a date with
\* seconds has filled the form, and an update of it was then answered with
\* an error
C13_Witness ==
    /\ panelTable = "activities"
    /\ \E row \in list :
          /\ row.id = editingId
          /\ row.image_url = NULLT /\ formData.image_url = ""
          /\ row.activity_date = Minute + 1 /\ formData.activity_date = Minute
    /\ last.op = "update" /\ last.status = "network"

\* C14: in a manager panel at most one insert, update or delete request is in
\* flight at any time, so that one intent never makes two interleaved writes
C14_OneRequestInFlight == Cardinality(requests) <= 1

\* a step in which the response of a write request of the panel arrives
WriteAnswered(r) ==
    \/ handleSubmit(r, TRUE) \/ handleSubmit(r, FALSE)
    \/ handleDelete(r, TRUE) \/ handleDelete(r, FALSE)

\* C15: a create, update or delete of a panel that the storage layer does not
\* apply, because the caller is not authorized, a value is invalid or the
\* request fails to connect, ends with the error toast and never the success
\* toast; so does every update and delete of a signed-in caller who is no admin
C15_UnappliedWriteToastsError ==
    [][requests' # requests
       => \A r \in requests :
            (/\ WriteAnswered(r)
             /\ last'.rows = 0
             /\ last'.status # "ok" \/ ~has_role(session, "admin"))
            => toast' = "error"]_vars

\* C16: when a submit or delete request returns an error, the panel sends no
\* further request (no retry, no refetch), leaves formData, editingId and the
\* displayed list as they are, and still displays its form and buttons
C16_ErrorLeavesPanel ==
    [][requests' # requests
       => \A r \in requests :
            (WriteAnswered(r) /\ last'.status # "ok")
            => /\ requests' = requests \ {r}
               /\ fetches' = fetches
               /\ UNCHANGED <<formData, editingId, list>>
               /\ PanelReady']_vars

\* C16's case: an insert was rejected, the error was toasted, the form still
\* holds the data and nothing is in flight
C16_Witness ==
    /\ last.op = "insert" /\ last.status = "denied"
    /\ toast = "error"
    /\ formData # EmptyForm
    /\ list # {}
    /\ requests = {} /\ fetches = {}

\* C17: in a panel used by the admin alone, a non-null editingId is the id of a
\* record of the table, so that a submit in edit mode that toasts success has
\* changed exactly that one row
C17_EditingIdExists ==
    /\ []((has_role(session, "admin") /\ editingId # NULL)
          => \E row \in content[panelTable] : row.id = editingId)
    /\ [][(requests' # requests /\ has_role(session, "admin"))
          => \A r \in requests :
               (r.op = "update" /\ handleSubmit(r, FALSE) /\ toast' = "success")
               => /\ last'.rows = 1
                  /\ \E row \in content'[panelTable] : row.id = r.id]_vars

\* C18: after every successful create, update or delete the panel refetches
\* its list, and when the last outstanding response of the panel, a fetch's,
\* has arrived, the displayed list equals the contents of the table: no
\* response of an earlier fetch leaves a stale list displayed
C18_ListIsFresh ==
    [][/\ requests' # requests
          => \A r \in requests :
               (WriteAnswered(r) /\ toast' = "success")
               => Visible(session, panelTable)' \in fetches'
       /\ (fetches' = {} /\ requests = {})
          => \A rows \in fetches :
               fetchNews_response(rows, FALSE)
               => list' = Visible(session, panelTable)]_vars

====
